---- MODULE Spec2Model ----
(***************************************************************************)
(* Model of the adaptive focus memory (focus.py) with its default          *)
(* collaborators: TokenCounter (whitespace fallback, the path taken when   *)
(* tiktoken is not importable), HashingEmbedder and HeuristicCompressor.   *)
(*                                                                         *)
(* A text is the sequence of its whitespace-separated words; a line break  *)
(* is the atom "NL" (whitespace for split(), a line and sentence end for   *)
(* the stub and the compressor).  A word ending in "." ends a sentence.    *)
(* Python's Optional[str] is a sequence of length <= 1: <<>> is None and   *)
(* <<t>> is the string t.  Floats are fixed-point integers: scores and     *)
(* thresholds are scaled by ScoreScale, vector components by EmbScale.     *)
(* The 200-character cap of the stub head is never reached by the texts    *)
(* of the model, whose lines have at most a handful of short words.        *)
(***************************************************************************)
EXTENDS Integers, Sequences, FiniteSets, TLC

\* ---- bounds of the model ----
MaxTurns == 2
MaxBudget == 5
MaxFailures == 1
MaxFaultTurns == 1

\* ---- fixed-point scales ----
ScoreScale == 10 ^ 4
EmbScale == 10 ^ 3

Max(a, b) == IF a >= b THEN a ELSE b
Min(a, b) == IF a <= b THEN a ELSE b
Abs(a) == IF a >= 0 THEN a ELSE 0 - a

NoText == <<>>
Some(t) == <<t>>

FULL == "FULL"
COMPRESSED == "COMPRESSED"
PLACEHOLDER == "PLACEHOLDER"
ABSENT == "ABSENT"

\* ---- the texts the callers pass in ----
EmptyText == <<>>
TextA == <<"a">>
TextLong == <<"b", "NL", "a", "b.", "a", "a.">>
TextQ == <<"b", "a.">>
Queries == {TextA, TextQ}
Preambles == {NoText, Some(TextQ)}
\* the (role, content) pairs the session driver appends
Turns == {<<"user", EmptyText>>, <<"user", TextA>>, <<"assistant", TextLong>>}

\* ---- utils.py / token_counter.py ----

\* str.split(): the words of a text, line breaks being whitespace
Words(text) == SelectSeq(text, LAMBDA w : w # "NL")

\* TokenCounter.count with _enc = None
Count(text) == IF text = <<>> THEN 0 ELSE Max(1, Len(Words(text)))

RECURSIVE TruncLoop(_, _, _, _)
TruncLoop(toks, target_tokens, out, used) ==
  IF toks = <<>> THEN out
  ELSE LET need == Count(<<Head(toks)>>) IN
       IF used + need > target_tokens THEN out
       ELSE TruncLoop(Tail(toks), target_tokens, Append(out, Head(toks)), used + need)

truncate_to_tokens(text, target_tokens) == TruncLoop(Words(text), target_tokens, <<>>, 0)

\* str.strip(" .,;:!?...") on one lower-cased word
StripPunct(w) ==
  CASE w = "a." -> "a"
    [] w = "b." -> "b"
    [] w = "-" -> ""
    [] OTHER -> w

RECURSIVE MapStrip(_)
MapStrip(ws) == IF ws = <<>> THEN <<>> ELSE <<StripPunct(Head(ws))>> \o MapStrip(Tail(ws))

simple_tokenize(text) == SelectSeq(MapStrip(Words(text)), LAMBDA t : t # "")

EndsSentence(w) == w \in {"a.", "b.", "NL"}

RECURSIVE SplitLoop(_, _, _)
SplitLoop(text, buff, parts) ==
  IF text = <<>> THEN (IF Words(buff) # <<>> THEN Append(parts, Words(buff)) ELSE parts)
  ELSE LET b == Append(buff, Head(text)) IN
       IF EndsSentence(Head(text))
       THEN SplitLoop(Tail(text), <<>>, IF Words(b) # <<>> THEN Append(parts, Words(b)) ELSE parts)
       ELSE SplitLoop(Tail(text), b, parts)

split_sentences(text) == SplitLoop(text, <<>>, <<>>)

\* ---- compression.py: HeuristicCompressor ----

SeqToSet(s) == {s[i] : i \in DOMAIN s}

\* max(1, len(toks)) ** 0.15, scaled by ScoreScale
LenPenalty(n) ==
  CASE n <= 1 -> 10000
    [] n = 2 -> 11096
    [] n = 3 -> 11791
    [] OTHER -> 12311

\* (1 + overlap) * pos_bias / len_penalty, scaled by EmbScale
SentenceScore(idx, s, hint_toks) ==
  LET toks == SeqToSet(simple_tokenize(s))
      overlap == Cardinality(toks \cap hint_toks)
  IN ((1 + overlap) * 20 * ScoreScale * EmbScale) \div ((20 + idx) * LenPenalty(Max(1, Cardinality(toks))))

\* list.sort(key = score, reverse = True): stable, ties keep their order
RECURSIVE InsertByScore(_, _)
InsertByScore(sorted, e) ==
  IF sorted = <<>> THEN <<e>>
  ELSE IF Head(sorted).score >= e.score THEN <<Head(sorted)>> \o InsertByScore(Tail(sorted), e)
       ELSE <<e>> \o sorted

RECURSIVE SortByScore(_, _)
SortByScore(scored, acc) ==
  IF scored = <<>> THEN acc ELSE SortByScore(Tail(scored), InsertByScore(acc, Head(scored)))

RECURSIVE FillLoop(_, _, _, _)
FillLoop(scored, target_tokens, out, used) ==
  IF scored = <<>> THEN out
  ELSE LET s == Head(scored).s
           need == Count(s)
       IN IF used + need > target_tokens
          THEN FillLoop(Tail(scored), target_tokens, out, used)
          ELSE IF used + need >= target_tokens
               THEN Append(out, s)
               ELSE FillLoop(Tail(scored), target_tokens, Append(out, s), used + need)

RECURSIVE JoinSpace(_)
JoinSpace(parts) == IF parts = <<>> THEN <<>> ELSE Head(parts) \o JoinSpace(Tail(parts))

\* a compressor that keeps the text only when it is strictly under the target
compress_strict(text, target_tokens, hint) ==
  IF Count(text) < target_tokens THEN text
  ELSE LET sentences == split_sentences(text) IN
       IF sentences = <<>> THEN truncate_to_tokens(text, target_tokens)
       ELSE LET hint_toks == SeqToSet(simple_tokenize(hint))
                scored == [i \in 1..Len(sentences) |->
                             [score |-> SentenceScore(i - 1, sentences[i], hint_toks), s |-> sentences[i]]]
                out == FillLoop(SortByScore(scored, <<>>), target_tokens, <<>>, 0)
            IN IF out = <<>> THEN truncate_to_tokens(sentences[1], target_tokens)
               ELSE JoinSpace(out)

\* lines 21-53: HeuristicCompressor.compress
compress(text, target_tokens, hint) ==
  IF Count(text) <= target_tokens THEN text
  ELSE LET sentences == split_sentences(text) IN
       IF sentences = <<>> THEN truncate_to_tokens(text, target_tokens)
       ELSE LET hint_toks == SeqToSet(simple_tokenize(hint))
                scored == [i \in 1..Len(sentences) |->
                             [score |-> SentenceScore(i - 1, sentences[i], hint_toks), s |-> sentences[i]]]
                out == FillLoop(SortByScore(scored, <<>>), target_tokens, <<>>, 0)
            IN IF out = <<>> THEN truncate_to_tokens(sentences[1], target_tokens)
               ELSE JoinSpace(out)

\* ---- embedding.py: HashingEmbedder(dim = 2) ----

Dim == 2

\* floor(sqrt(n)) by bisection
RECURSIVE ISqrtLoop(_, _, _)
ISqrtLoop(n, lo, hi) ==
  IF lo >= hi THEN lo
  ELSE LET mid == (lo + hi + 1) \div 2 IN
       IF mid * mid <= n THEN ISqrtLoop(n, mid, hi) ELSE ISqrtLoop(n, lo, mid - 1)

ISqrt(n) == ISqrtLoop(n, 0, 40000)

\* l2_normalize_inplace: v / (sqrt(sum x*x) or 1.0), components scaled by EmbScale
l2_normalize(v) ==
  LET n == v[1] * v[1] + v[2] * v[2]
      s == IF n = 0 THEN EmbScale ELSE ISqrt(n * EmbScale * EmbScale)
      comp(x) == IF x >= 0 THEN (x * EmbScale * EmbScale) \div s
                 ELSE 0 - ((Abs(x) * EmbScale * EmbScale) \div s)
  IN <<comp(v[1]), comp(v[2])>>

\* bucket = (hash(tok) ^ (i * 0x9E3779B1)) % 2: the multiplier is odd, so the
\* bucket is the parity of hash(tok) flipped on odd positions i;
\* sign = -1 iff hash(tok + "$") is odd.  salt gives the parities of the
\* process's randomised string hash: salt.hash[tok] that of hash(tok),
\* salt.hash_dollar[tok] that of hash(tok + "$").
RECURSIVE EncodeLoop(_, _, _, _)
EncodeLoop(salt, toks, i, vec) ==
  IF toks = <<>> THEN vec
  ELSE LET tok == Head(toks)
           bucket == (salt.hash[tok] + i) % Dim
           sign == IF salt.hash_dollar[tok] = 1 THEN 0 - 1 ELSE 1
       IN EncodeLoop(salt, Tail(toks), i + 1, [vec EXCEPT ![bucket + 1] = @ + sign])

encode(salt, text) == l2_normalize(EncodeLoop(salt, simple_tokenize(text), 0, <<0, 0>>))

\* cosine(a, b) = sum(x * y for x, y in zip(a, b)), scaled by ScoreScale
cosine(a, b) ==
  LET n == Min(Len(a), Len(b))
      dot == IF n = 0 THEN 0 ELSE IF n = 1 THEN a[1] * b[1] ELSE a[1] * b[1] + a[2] * b[2]
      unit == (EmbScale * EmbScale) \div ScoreScale
  IN IF dot >= 0 THEN dot \div unit ELSE 0 - (Abs(dot) \div unit)

\* ---- focus.py ----

\* FocusConfig values a caller may construct; thresholds scaled by ScoreScale,
\* default_compress_ratio in hundredths
CfgTypical ==
  [high_threshold |-> 6000, mid_threshold |-> 3000, recency_half_life |-> 1,
   max_placeholder_tokens |-> 6, default_compress_ratio |-> 50]
CfgEdge ==
  [high_threshold |-> 5000, mid_threshold |-> 0, recency_half_life |-> 2,
   max_placeholder_tokens |-> 2, default_compress_ratio |-> 100]
CfgInvalid ==
  [high_threshold |-> 3000, mid_threshold |-> 5500, recency_half_life |-> 0,
   max_placeholder_tokens |-> 0, default_compress_ratio |-> 0]
Configs == {CfgTypical, CfgEdge, CfgInvalid}

\* the constraints the FocusConfig documentation puts on its fields
ValidConfig(c) ==
  /\ 0 <= c.mid_threshold /\ c.mid_threshold < c.high_threshold /\ c.high_threshold <= ScoreScale
  /\ c.recency_half_life > 0
  /\ c.max_placeholder_tokens > 0
  /\ 0 < c.default_compress_ratio /\ c.default_compress_ratio <= 100

\* parities of the string hash in the process
Salts ==
  { [hash |-> [a |-> 0, b |-> 0], hash_dollar |-> [a |-> 0, b |-> 1]] }

NoCall ==
  [op |-> "none", outcome |-> "ok", query |-> <<>>, budget |-> 0, preamble |-> NoText,
   messages |-> <<>>, msg_ids |-> <<>>, stats |-> <<>>, desired |-> <<>>, achieved |-> <<>>,
   compress_calls |-> <<>>, memo_before |-> {}, reencoded |-> {},
   fault |-> "none", retries |-> 0]

\* callers of build_context that may run at the same time
Callers == {1, 2}

\* a caller outside build_context
Idle == [pc |-> "idle", st |-> <<>>, rest |-> <<>>, comp |-> <<>>]

VARIABLES constructed, cfg, salt, dim, items, next_id, last, threads

vars == <<constructed, cfg, salt, dim, items, next_id, last, threads>>

Init ==
  /\ constructed = FALSE
  /\ cfg = CfgTypical
  /\ salt \in Salts
  /\ dim = Dim
  /\ items = <<>>
  /\ next_id = 1
  /\ last = NoCall
  /\ threads = [callers |-> [t \in Callers |-> Idle], computed_by |-> {}]

\* the manager of a HashingEmbedder(dim = 0)
InitZeroDim ==
  /\ constructed = FALSE
  /\ cfg = CfgTypical
  /\ salt \in Salts
  /\ dim = 0
  /\ items = <<>>
  /\ next_id = 1
  /\ last = NoCall
  /\ threads = [callers |-> [t \in Callers |-> Idle], computed_by |-> {}]

\* embedding.py lines 23-29 for the embedder's dim: [0.0] * 0 is the empty
\* vector, and with a token "% self.dim" raises ZeroDivisionError
encode_raises(text) == dim = 0 /\ simple_tokenize(text) # <<>>

embedder_encode(text) == IF dim = 0 THEN <<>> ELSE encode(salt, text)

\* FocusManager.__init__: stores the collaborators and the config as given
Construct(c) ==
  /\ ~constructed
  /\ constructed' = TRUE
  /\ cfg' = c
  /\ items' = <<>>
  /\ next_id' = 1
  /\ last' = [NoCall EXCEPT !.op = "init"]
  /\ UNCHANGED <<salt, dim, threads>>

MemoryItem(id, role, content) ==
  [id |-> id, role |-> role, content |-> content, token_len |-> 0, embedding |-> <<>>,
   compression_state |-> FULL, compressed_text |-> NoText, last_score |-> 0]

\* add_message that does not advance _next_id
add_message_reuse_id(role, content) ==
  /\ constructed
  /\ Len(items) < MaxTurns
  /\ ~encode_raises(content)
  /\ LET item == MemoryItem(next_id, role, content)
         item2 == [item EXCEPT !.token_len = Count(content)]
         item3 == [item2 EXCEPT !.embedding = embedder_encode(content)]
     IN items' = Append(items, item3)
  /\ next_id' = next_id
  /\ last' = [NoCall EXCEPT !.op = "add_message"]
  /\ UNCHANGED <<constructed, cfg, salt, dim, threads>>

\* lines 62-68: add_message, both collaborators answering
add_message(role, content) ==
  /\ constructed
  /\ Len(items) < MaxTurns
  /\ ~encode_raises(content)
  /\ LET item == MemoryItem(next_id, role, content)
         item2 == [item EXCEPT !.token_len = Count(content)]
         item3 == [item2 EXCEPT !.embedding = embedder_encode(content)]
     IN items' = Append(items, item3)
  /\ next_id' = next_id + 1
  /\ last' = [NoCall EXCEPT !.op = "add_message"]
  /\ UNCHANGED <<constructed, cfg, salt, dim, threads>>

\* lines 63-66: add_message when tc.count(content) or embedder.encode(content) raises: the
\* exception leaves the method after line 64 and before line 67
add_message_fails(role, content) ==
  /\ constructed
  /\ Len(items) < MaxTurns
  /\ (next_id - 1) - Len(items) < MaxFailures
  /\ next_id' = next_id + 1
  /\ last' = [NoCall EXCEPT !.op = "add_message", !.outcome = "error"]
  /\ UNCHANGED <<constructed, cfg, salt, dim, items, threads>>

\* 0.5 ** (turns_ago / half), scaled by ScoreScale, for the half-lives 1 and 2
\* of Configs: entry j + 1 is 0.5 ** (j / 2)
HalfPowers == <<10000, 7071, 5000, 3536, 2500, 1768, 1250, 884, 625>>

RecencyWeight(turns_ago, half) == HalfPowers[Min((2 * turns_ago) \div half, 8) + 1]

\* a score whose recency distance is off by one
Score_off_by_one(sim, idx, n) ==
  LET turns_ago == n - idx
      half == Max(1, cfg.recency_half_life)
      recency_weight == RecencyWeight(turns_ago, half)
  IN (Max(0, sim) * (2500 + (7500 * recency_weight) \div ScoreScale)) \div ScoreScale

\* lines 89-92: score of the turn at zero-based position idx of n
Score(sim, idx, n) ==
  LET turns_ago == (n - 1) - idx
      half == Max(1, cfg.recency_half_life)
      recency_weight == RecencyWeight(turns_ago, half)
  IN (Max(0, sim) * (2500 + (7500 * recency_weight) \div ScoreScale)) \div ScoreScale

\* lines 85-94: the scoring loop; fills a missing embedding, stores last_score
ScoreItems(its, q_emb) ==
  [i \in 1..Len(its) |->
     LET emb == IF its[i].embedding = <<>> THEN embedder_encode(its[i].content) ELSE its[i].embedding
     IN [its[i] EXCEPT !.embedding = emb,
                       !.last_score = Score(cosine(q_emb, emb), i - 1, Len(its))]]

\* a plan that takes the thresholds as strict lower bounds
Desired_strict(score) ==
  IF score > cfg.high_threshold THEN FULL
  ELSE IF score > cfg.mid_threshold THEN COMPRESSED
  ELSE PLACEHOLDER

\* lines 98-104: the plan of one scored turn
Desired(score) ==
  IF score >= cfg.high_threshold THEN FULL
  ELSE IF score >= cfg.mid_threshold THEN COMPRESSED
  ELSE PLACEHOLDER

Ids(its) == {its[i].id : i \in 1..Len(its)}

\* the scored turn whose entry a dict keyed by id keeps: the last one written
IndexOfId(its, id) ==
  CHOOSE i \in 1..Len(its) : its[i].id = id /\ \A j \in (i + 1)..Len(its) : its[j].id # id

desired_map(its) == [id \in Ids(its) |-> Desired(its[IndexOfId(its, id)].last_score)]

\* lines 207-214; "*" stands for the bullet of the reference marker
StripNL(text) ==
  LET nonNL == {i \in 1..Len(text) : text[i] # "NL"} IN
  IF nonNL = {} THEN <<>>
  ELSE LET lo == CHOOSE i \in nonNL : \A j \in nonNL : i <= j
           hi == CHOOSE i \in nonNL : \A j \in nonNL : i >= j
       IN SubSeq(text, lo, hi)

FirstLine(text) ==
  LET nls == {i \in 1..Len(text) : text[i] = "NL"} IN
  IF nls = {} THEN text
  ELSE SubSeq(text, 1, (CHOOSE i \in nls : \A j \in nls : i <= j) - 1)

StubPrefix(it) == <<"[ref", "#" \o ToString(it.id), "*", it.role \o "]">>

make_stub(it) ==
  LET head == FirstLine(StripNL(it.content))
      prefix == StubPrefix(it)
      room == Max(0, cfg.max_placeholder_tokens - Count(prefix))
  IN IF room <= 0 THEN prefix
     ELSE prefix \o truncate_to_tokens(head, room)

\* lines 125-127
compress_item(it, current_query) ==
  LET target == Max(1, (it.token_len * cfg.default_compress_ratio) \div 100)
  IN compress(it.content, target, current_query)

\* try_add that forgets to charge the budget
try_add_no_charge(st, role, text, id) ==
  LET need == Count(text) IN
  IF need <= st.budget_left
  THEN [st EXCEPT !.messages = Append(@, [role |-> role, text |-> text]),
                  !.msg_ids = Append(@, id),
                  !.ok = TRUE]
  ELSE [st EXCEPT !.ok = FALSE]

\* try_add that lets a message exceed the budget by one token
try_add_off_by_one(st, role, text, id) ==
  LET need == Count(text) IN
  IF need <= st.budget_left + 1
  THEN [st EXCEPT !.messages = Append(@, [role |-> role, text |-> text]),
                  !.msg_ids = Append(@, id),
                  !.budget_left = @ - need,
                  !.ok = TRUE]
  ELSE [st EXCEPT !.ok = FALSE]

\* lines 109-116: try_add on the packing state st; ok is its return value and
\* id tags the message with the turn it renders (0 for the preamble)
try_add(st, role, text, id) ==
  LET need == Count(text) IN
  IF need <= st.budget_left
  THEN [st EXCEPT !.messages = Append(@, [role |-> role, text |-> text]),
                  !.msg_ids = Append(@, id),
                  !.budget_left = @ - need,
                  !.ok = TRUE]
  ELSE [st EXCEPT !.ok = FALSE]

\* a stub attempt that stores the stub as the turn's content
StubStage_overwrites_content(st, i) ==
  LET it == st.items[i]
      stub == make_stub(it)
      r == try_add(st, it.role, stub, it.id)
  IN IF r.ok
     THEN LET stok == Count(stub) IN
          [r EXCEPT !.used_tokens = @ + stok,
                    !.placeholder_tokens = @ + stok,
                    !.stub_count = @ + 1,
                    !.items[i].compression_state = PLACEHOLDER,
                    !.items[i].content = stub,
                    !.achieved[it.id] = PLACEHOLDER]
     ELSE r

\* lines 153-159, 171-177, 180-186: the stub attempt on the turn at index i
StubStage(st, i) ==
  LET it == st.items[i]
      stub == make_stub(it)
      r == try_add(st, it.role, stub, it.id)
  IN IF r.ok
     THEN LET stok == Count(stub) IN
          [r EXCEPT !.used_tokens = @ + stok,
                    !.placeholder_tokens = @ + stok,
                    !.stub_count = @ + 1,
                    !.items[i].compression_state = PLACEHOLDER,
                    !.achieved[it.id] = PLACEHOLDER]
     ELSE r

\* a shortened-text attempt that leaves its emission out of compressed_count
AfterCompress_uncounted(st, i, comp, computed) ==
  LET it == st.items[i]
      st1 == [st EXCEPT !.items[i].compressed_text = Some(comp),
                        !.compress_calls[it.id] = IF computed THEN @ + 1 ELSE @]
      r == try_add(st1, it.role, comp, it.id)
  IN IF r.ok
     THEN LET ctok == Count(comp) IN
          [r EXCEPT !.used_tokens = @ + ctok,
                    !.compressed_tokens = @ + ctok,
                    !.items[i].compression_state = COMPRESSED,
                    !.achieved[it.id] = COMPRESSED]
     ELSE StubStage(r, i)

\* lines 144-151, 163-169: the shortened text comp is stored and tried, then
\* the stub; computed tells whether comp came from the compressor
AfterCompress(st, i, comp, computed) ==
  LET it == st.items[i]
      st1 == [st EXCEPT !.items[i].compressed_text = Some(comp),
                        !.compress_calls[it.id] = IF computed THEN @ + 1 ELSE @]
      r == try_add(st1, it.role, comp, it.id)
  IN IF r.ok
     THEN LET ctok == Count(comp) IN
          [r EXCEPT !.used_tokens = @ + ctok,
                    !.compressed_tokens = @ + ctok,
                    !.compressed_count = @ + 1,
                    !.items[i].compression_state = COMPRESSED,
                    !.achieved[it.id] = COMPRESSED]
     ELSE StubStage(r, i)

\* lines 143, 162: the memo test "it.compressed_text or ..."
Memoized(it) == it.compressed_text # NoText /\ it.compressed_text[1] # <<>>

\* lines 143-151, 162-169: the shortened-text attempt, then the stub attempt
CompressedStage(st, i, current_query) ==
  LET it == st.items[i] IN
  IF Memoized(it) THEN AfterCompress(st, i, it.compressed_text[1], FALSE)
  ELSE AfterCompress(st, i, compress_item(it, current_query), TRUE)

\* a packing loop that tries the full text of every turn first
PackItem_full_first(st, i, desired, current_query) ==
  LET it == st.items[i]
      r == try_add(st, it.role, it.content, it.id)
  IN IF r.ok
     THEN [r EXCEPT !.used_tokens = @ + it.token_len,
                    !.raw_tokens = @ + it.token_len,
                    !.expanded_count = @ + 1,
                    !.items[i].compression_state = FULL,
                    !.achieved[it.id] = FULL]
     ELSE IF desired = PLACEHOLDER THEN StubStage(r, i)
          ELSE CompressedStage(r, i, current_query)

\* a packing loop that gives a turn last emitted COMPRESSED only its stub
PackItem_degrades(st, i, desired, current_query) ==
  LET it == st.items[i] IN
  IF it.compression_state = COMPRESSED THEN StubStage(st, i)
  ELSE IF desired = FULL
  THEN LET r == try_add(st, it.role, it.content, it.id) IN
       IF r.ok
       THEN [r EXCEPT !.used_tokens = @ + it.token_len,
                      !.raw_tokens = @ + it.token_len,
                      !.expanded_count = @ + 1,
                      !.items[i].compression_state = FULL,
                      !.achieved[it.id] = FULL]
       ELSE CompressedStage(r, i, current_query)
  ELSE IF desired = COMPRESSED
       THEN CompressedStage(st, i, current_query)
       ELSE StubStage(st, i)

\* a packing loop that never tries the full text
PackItem_skips_full(st, i, desired, current_query) ==
  IF desired = PLACEHOLDER
  THEN StubStage(st, i)
  ELSE CompressedStage(st, i, current_query)

\* lines 133-186: one iteration of the packing loop
PackItem(st, i, desired, current_query) ==
  LET it == st.items[i] IN
  IF desired = FULL
  THEN LET r == try_add(st, it.role, it.content, it.id) IN
       IF r.ok
       THEN [r EXCEPT !.used_tokens = @ + it.token_len,
                      !.raw_tokens = @ + it.token_len,
                      !.expanded_count = @ + 1,
                      !.items[i].compression_state = FULL,
                      !.achieved[it.id] = FULL]
       ELSE CompressedStage(r, i, current_query)
  ELSE IF desired = COMPRESSED
       THEN CompressedStage(st, i, current_query)
       ELSE StubStage(st, i)

\* line 130: sorted(self._items, key = id) as the sequence of indices into _items
RECURSIVE InsertById(_, _, _)
InsertById(its, order, i) ==
  IF order = <<>> THEN <<i>>
  ELSE IF its[Head(order)].id <= its[i].id THEN <<Head(order)>> \o InsertById(its, Tail(order), i)
       ELSE <<i>> \o order

RECURSIVE SortLoop(_, _, _)
SortLoop(its, k, order) ==
  IF k > Len(its) THEN order ELSE SortLoop(its, k + 1, InsertById(its, order, k))

\* emission in descending score order instead of chronological order
RECURSIVE InsertByLastScore(_, _, _)
InsertByLastScore(its, order, i) ==
  IF order = <<>> THEN <<i>>
  ELSE IF its[Head(order)].last_score >= its[i].last_score
       THEN <<Head(order)>> \o InsertByLastScore(its, Tail(order), i)
       ELSE <<i>> \o order

RECURSIVE SortByLastScore(_, _, _)
SortByLastScore(its, k, order) ==
  IF k > Len(its) THEN order ELSE SortByLastScore(its, k + 1, InsertByLastScore(its, order, k))

ordered_items_by_score(its) == SortByLastScore(its, 1, <<>>)

ordered_items(its) == SortLoop(its, 1, <<>>)

\* a packing loop that stops at the first turn that fits at no level
RECURSIVE PackLoop_stops_at_omitted(_, _, _, _)
PackLoop_stops_at_omitted(st, order, dmap, current_query) ==
  IF order = <<>> THEN st
  ELSE LET id == st.items[Head(order)].id
           r == PackItem(st, Head(order), dmap[id], current_query)
       IN IF r.achieved[id] = ABSENT THEN r
          ELSE PackLoop_stops_at_omitted(r, Tail(order), dmap, current_query)

RECURSIVE PackLoop(_, _, _, _)
PackLoop(st, order, dmap, current_query) ==
  IF order = <<>> THEN st
  ELSE PackLoop(PackItem(st, Head(order), dmap[st.items[Head(order)].id], current_query),
                Tail(order), dmap, current_query)

CountPlanned(its, dmap, f) == Cardinality({i \in 1..Len(its) : dmap[its[i].id] = f})

\* lines 80-130: scoring, plan and preamble; the packing state before the loop
StartPacking(current_query, budget_tokens, system_preamble) ==
  LET q_emb == embedder_encode(current_query)
      scored == ScoreItems(items, q_emb)
      st0 == [items |-> scored, messages |-> <<>>, msg_ids |-> <<>>, ok |-> FALSE,
              budget_left |-> budget_tokens,
              used_tokens |-> 0, raw_tokens |-> 0, compressed_tokens |-> 0,
              placeholder_tokens |-> 0, expanded_count |-> 0, compressed_count |-> 0,
              stub_count |-> 0,
              achieved |-> [id \in Ids(items) |-> ABSENT],
              compress_calls |-> [id \in Ids(items) |-> 0],
              query |-> current_query, budget |-> budget_tokens, preamble |-> system_preamble,
              dmap |-> desired_map(scored),
              memo_before |-> {items[i].id : i \in {j \in 1..Len(items) : items[j].compressed_text # NoText}},
              reencoded |-> {items[i].id : i \in {j \in 1..Len(items) : items[j].embedding = <<>>}}]
  IN IF system_preamble # NoText /\ system_preamble[1] # <<>>
     THEN try_add(st0, "system", system_preamble[1], 0)
     ELSE st0

\* lines 188-203: the returned pair and the turns as the call leaves them
Result(st) ==
  LET stats == [budget |-> st.budget,
                used |-> st.used_tokens,
                raw_tokens |-> st.raw_tokens,
                compressed_tokens |-> st.compressed_tokens,
                placeholder_tokens |-> st.placeholder_tokens,
                expanded_count |-> st.expanded_count,
                compressed_count |-> st.compressed_count,
                stub_count |-> st.stub_count,
                items_total |-> Len(st.items),
                items_planned_full |-> CountPlanned(st.items, st.dmap, FULL),
                items_planned_compressed |-> CountPlanned(st.items, st.dmap, COMPRESSED),
                items_planned_stub |-> CountPlanned(st.items, st.dmap, PLACEHOLDER)]
  IN [items |-> st.items,
      call |-> [op |-> "build_context", outcome |-> "ok", query |-> st.query,
                budget |-> st.budget, preamble |-> st.preamble,
                messages |-> st.messages, msg_ids |-> st.msg_ids, stats |-> stats,
                desired |-> st.dmap, achieved |-> st.achieved,
                compress_calls |-> st.compress_calls,
                memo_before |-> st.memo_before, reencoded |-> st.reencoded,
                fault |-> "none", retries |-> 0]]

\* lines 80-203: the result of build_context and the turns as it leaves them
BuildContext(current_query, budget_tokens, system_preamble) ==
  LET st1 == StartPacking(current_query, budget_tokens, system_preamble)
  IN Result(PackLoop(st1, ordered_items(st1.items), st1.dmap, current_query))

build_context(current_query, budget_tokens, system_preamble) ==
  /\ constructed
  /\ ~encode_raises(current_query)
  /\ \E r \in {BuildContext(current_query, budget_tokens, system_preamble)} :
        /\ items' = r.items
        /\ last' = r.call
  /\ UNCHANGED <<constructed, cfg, salt, dim, next_id, threads>>

\* the packing state when the loop reaches position k of the order
BeforeTurn(st1, k) ==
  PackLoop(st1, SubSeq(ordered_items(st1.items), 1, k - 1), st1.dmap, st1.query)

\* the turn at index i gets to line 143 or 162 and finds no memoized text
NeedsCompress(st, i) ==
  LET it == st.items[i]
      d == st.dmap[it.id]
  IN /\ d = COMPRESSED \/ (d = FULL /\ ~try_add(st, it.role, it.content, it.id).ok)
     /\ ~Memoized(it)

\* the collaborator calls of build_context that may raise, as (k, collab,
\* written): embedder.encode at line 80 (k = 0), tc.count on the preamble at
\* line 111 (k = 0), or, for the turn at position k of the loop, the first
\* tc.count on it, compressor.compress at lines 143/162, or a tc.count after
\* line 144/163 has stored the shortened text (written)
FaultPoints ==
  {<<0, "encode", FALSE>>, <<0, "count", FALSE>>}
    \cup {<<k, "count", FALSE>> : k \in 1..Len(items)}
    \cup {<<k, "compress", FALSE>> : k \in 1..Len(items)}
    \cup {<<k, "count", TRUE>> : k \in 1..Len(items)}

\* a build_context that catches the collaborator's exception and tries again
build_context_fails_retried(current_query, budget_tokens, system_preamble) ==
  /\ constructed
  /\ ~encode_raises(current_query)
  /\ \E r \in {BuildContext(current_query, budget_tokens, system_preamble)} :
       \E f \in FaultPoints :
         /\ items' = r.items
         /\ last' = [r.call EXCEPT !.fault = f[2], !.retries = 1]
  /\ UNCHANGED <<constructed, cfg, salt, dim, next_id, threads>>

\* lines 80-186 when a collaborator call raises.  Nothing catches the
\* exception: the call ends there, with what it has written to the turns.
build_context_fails(current_query, budget_tokens, system_preamble) ==
  /\ constructed
  /\ ~encode_raises(current_query)
  /\ \E st1 \in {StartPacking(current_query, budget_tokens, system_preamble)} :
       \E f \in FaultPoints :
         LET k == f[1]
             collab == f[2]
             written == f[3]
         IN /\ \/ /\ k = 0 /\ collab = "encode"
                  /\ items' = items
               \/ /\ k = 0 /\ collab = "count"
                  /\ system_preamble # NoText /\ system_preamble[1] # <<>>
                  /\ items' = st1.items
               \/ /\ k >= 1
                  /\ \E st \in {BeforeTurn(st1, k)} :
                       LET i == ordered_items(st1.items)[k] IN
                       \/ /\ collab = "count" /\ ~written
                          /\ items' = st.items
                       \/ /\ collab = "compress"
                          /\ NeedsCompress(st, i)
                          /\ items' = st.items
                       \/ /\ collab = "count" /\ written
                          /\ NeedsCompress(st, i)
                          /\ items' = [st.items EXCEPT ![i].compressed_text =
                                          Some(compress_item(st.items[i], current_query))]
            /\ last' = [NoCall EXCEPT !.op = "build_context", !.outcome = "error",
                                      !.fault = collab]
  /\ UNCHANGED <<constructed, cfg, salt, dim, next_id, threads>>

\* ---- two callers of build_context at the same time ----

\* the budget and the preamble of the chat loop's calls
ConcBudget == MaxBudget
ConcPreamble == Some(TextQ)

\* lines 132-186 up to the first turn that needs the compressor
RECURSIVE RunToCompress(_, _)
RunToCompress(st, order) ==
  IF order = <<>> THEN [st |-> st, rest |-> <<>>]
  ELSE IF NeedsCompress(st, Head(order)) THEN [st |-> st, rest |-> order]
  ELSE RunToCompress(PackItem(st, Head(order), st.dmap[st.items[Head(order)].id], st.query),
                     Tail(order))

\* the turns for which the call with packing state st called the compressor
ComputedIn(st, t) == {<<id, t>> : id \in {j \in DOMAIN st.compress_calls : st.compress_calls[j] > 0}}

\* lines 80-143/162: caller t runs build_context up to its first read of an
\* empty compressed_text, or to the end if it never reads one
conc_begin(t, current_query) ==
  /\ constructed
  /\ threads.callers[t].pc = "idle"
  /\ ~encode_raises(current_query)
  /\ \E st1 \in {StartPacking(current_query, ConcBudget, ConcPreamble)} :
      \E r \in {RunToCompress(st1, ordered_items(st1.items))} :
        IF r.rest = <<>>
        THEN /\ items' = r.st.items
             /\ last' = Result(r.st).call
             /\ threads' = [threads EXCEPT !.computed_by = @ \cup ComputedIn(r.st, t)]
        ELSE /\ items' = r.st.items
             /\ last' = last
             /\ threads' = [threads EXCEPT !.callers[t] =
                               [pc |-> "compute", st |-> r.st, rest |-> r.rest, comp |-> <<>>]]
  /\ UNCHANGED <<constructed, cfg, salt, dim, next_id>>

\* lines 143/162, right-hand side of the "or": caller t calls the compressor
conc_compute(t) ==
  /\ threads.callers[t].pc = "compute"
  /\ LET c == threads.callers[t]
         i == Head(c.rest)
     IN threads' = [threads EXCEPT !.callers[t].pc = "write",
                                   !.callers[t].comp = compress_item(items[i], c.st.query)]
  /\ UNCHANGED <<constructed, cfg, salt, dim, items, next_id, last>>

\* lines 144/163-203: caller t stores the shortened text and runs the rest of
\* the call on the turns as they are now
conc_finish(t) ==
  /\ threads.callers[t].pc = "write"
  /\ LET c == threads.callers[t]
         st2 == AfterCompress([c.st EXCEPT !.items = items], Head(c.rest), c.comp, TRUE)
     IN \E st3 \in {PackLoop(st2, Tail(c.rest), c.st.dmap, c.st.query)} :
          /\ items' = st3.items
          /\ last' = Result(st3).call
          /\ threads' = [threads EXCEPT !.callers[t] = Idle,
                                        !.computed_by = @ \cup ComputedIn(st3, t)]
  /\ UNCHANGED <<constructed, cfg, salt, dim, next_id>>

Next ==
  \/ \E c \in Configs : Construct(c)
  \/ \E t \in Turns : add_message(t[1], t[2])
  \/ \E q \in Queries, b \in 0..MaxBudget, p \in Preambles : build_context(q, b, p)

Spec == Init /\ [][Next]_vars

\* the same program with collaborators that may raise
NextFaults ==
  \/ Next
  \/ \E t \in Turns : add_message_fails(t[1], t[2])

SpecFaults == Init /\ [][NextFaults]_vars

\* the program with collaborators that may raise during build_context, on
\* stores of at most MaxFaultTurns turns
NextBuildFaults ==
  \/ \E c \in Configs : Construct(c)
  \/ /\ Len(items) < MaxFaultTurns
     /\ \E t \in Turns : add_message(t[1], t[2])
  \/ \E q \in Queries, b \in 0..MaxBudget, p \in Preambles : build_context(q, b, p)
  \/ \E q \in Queries, b \in 0..MaxBudget, p \in Preambles : build_context_fails(q, b, p)

SpecBuildFaults == Init /\ [][NextBuildFaults]_vars

\* the program with two callers of build_context whose calls may interleave;
\* turns are appended between calls
NextConc ==
  \/ \E c \in Configs : Construct(c)
  \/ /\ \A t \in Callers : threads.callers[t].pc = "idle"
     /\ \E t \in Turns : add_message(t[1], t[2])
  \/ \E t \in Callers, q \in Queries : conc_begin(t, q)
  \/ \E t \in Callers : conc_compute(t)
  \/ \E t \in Callers : conc_finish(t)

SpecConc == Init /\ [][NextConc]_vars

\* the program on a HashingEmbedder(dim = 0); the chat loop passes an empty
\* input line as the query
NextZeroDim ==
  \/ \E c \in Configs : Construct(c)
  \/ \E t \in Turns : add_message(t[1], t[2])
  \/ \E q \in Queries \cup {EmptyText}, b \in 0..MaxBudget, p \in Preambles : build_context(q, b, p)

SpecZeroDim == InitZeroDim /\ [][NextZeroDim]_vars

\* ---- properties ----

Built == last.op = "build_context" /\ last.outcome = "ok"

RECURSIVE SumCost(_)
SumCost(msgs) == IF msgs = <<>> THEN 0 ELSE Count(Head(msgs).text) + SumCost(Tail(msgs))

PreambleGiven == last.preamble # NoText /\ last.preamble[1] # <<>>
PreambleEmitted == last.msg_ids # <<>> /\ last.msg_ids[1] = 0

Rank(f) == CASE f = FULL -> 3 [] f = COMPRESSED -> 2 [] f = PLACEHOLDER -> 1 [] OTHER -> 0

ItemOfId(id) == items[IndexOfId(items, id)]

\* C1: every build_context result stays within its budget: stats.used is at
\* most stats.budget, and the token costs of all returned messages, the
\* preamble included, add up to at most budget_tokens.
C1_WithinBudget ==
  Built => /\ last.stats.used <= last.stats.budget
           /\ SumCost(last.messages) <= last.budget

\* a call under budget pressure: the preamble and a turn were emitted, the
\* budget is used up exactly and another turn had to be left out
C1_Witness ==
  /\ Built /\ PreambleEmitted /\ Len(last.messages) >= 2
  /\ SumCost(last.messages) = last.budget
  /\ \E id \in DOMAIN last.achieved : last.achieved[id] = ABSENT

\* C2: in every build_context result the token costs of the returned
\* messages add up to stats.used.
C2_UsedIsEmittedCost == Built => SumCost(last.messages) = last.stats.used

\* C3: the messages rendering stored turns come in strictly ascending turn id,
\* each turn at most once, each with its turn's role, and an emitted preamble
\* is the first message (msg_ids tags the preamble with 0).
C3_Chronological ==
  Built =>
    /\ Len(last.msg_ids) = Len(last.messages)
    /\ \A i, j \in 1..Len(last.msg_ids) : i < j => last.msg_ids[i] < last.msg_ids[j]
    /\ \A i \in 1..Len(last.msg_ids) :
         IF last.msg_ids[i] = 0
         THEN i = 1 /\ last.messages[i] = [role |-> "system", text |-> last.preamble[1]]
         ELSE /\ last.msg_ids[i] \in Ids(items)
              /\ last.messages[i].role = ItemOfId(last.msg_ids[i]).role

\* the preamble and two turns were emitted, and the older turn scored
\* strictly lower than the newer one
C3_Witness ==
  /\ Built /\ PreambleEmitted /\ Len(last.messages) = 3
  /\ ItemOfId(last.msg_ids[2]).last_score < ItemOfId(last.msg_ids[3]).last_score

\* C4: no turn is emitted at a fidelity above the planned one: achieved is at
\* most desired in the order FULL > COMPRESSED > PLACEHOLDER > absent, a turn
\* not planned FULL never counts as an expanded (FULL) emission, and a turn
\* planned PLACEHOLDER is rendered by its stub or not at all.
C4_CascadeOnlyDown ==
  Built =>
    /\ \A id \in DOMAIN last.desired : Rank(last.achieved[id]) <= Rank(last.desired[id])
    /\ last.stats.expanded_count <= last.stats.items_planned_full
    /\ \A k \in 1..Len(last.msg_ids) :
         (last.msg_ids[k] # 0 /\ last.desired[last.msg_ids[k]] = PLACEHOLDER)
           => last.messages[k].text = make_stub(ItemOfId(last.msg_ids[k]))

\* a turn planned COMPRESSED stepped down to its stub while a turn planned
\* FULL was emitted in full
C4_Witness ==
  /\ Built
  /\ \E id \in DOMAIN last.desired :
       last.desired[id] = COMPRESSED /\ last.achieved[id] = PLACEHOLDER
  /\ \E id \in DOMAIN last.desired :
       last.desired[id] = FULL /\ last.achieved[id] = FULL

\* C5: the compressor runs at most once per stored turn: a call never invokes
\* it for a turn whose shortened text was already memoized (whatever its
\* value), and at most once for any other turn.
C5_CompressOncePerTurn ==
  Built => \A id \in DOMAIN last.compress_calls :
             /\ last.compress_calls[id] <= 1
             /\ id \in last.memo_before => last.compress_calls[id] = 0

\* C6: under every valid configuration the stub of every stored turn costs at
\* most max_placeholder_tokens.
C6_StubWithinBound ==
  (constructed /\ ValidConfig(cfg)) =>
    \A i \in 1..Len(items) : Count(make_stub(items[i])) <= cfg.max_placeholder_tokens

\* C7: the store is append-only with fresh, strictly increasing ids: every
\* step keeps the stored turns with their id, role and content in place, adds
\* at most one turn at the end, and leaves all ids strictly ascending and
\* below the next id to assign, which never decreases.
C7_AppendOnly ==
  [][ /\ Len(items') \in {Len(items), Len(items) + 1}
      /\ \A i \in 1..Len(items) :
           /\ items'[i].id = items[i].id
           /\ items'[i].role = items[i].role
           /\ items'[i].content = items[i].content
      /\ \A i, j \in 1..Len(items') : i < j => items'[i].id < items'[j].id
      /\ \A i \in 1..Len(items') : items'[i].id < next_id'
      /\ next_id' >= next_id ]_vars

\* a store of at least two turns that build_context has gone over
C7_Witness ==
  /\ Built /\ Len(items) >= 2
  /\ \E i \in 1..Len(items) : items[i].compressed_text # NoText

\* C8 (as stated): with budget 0, a non-empty preamble and a non-empty
\* history, build_context returns no message at all and stats.used = 0.
C8_BudgetZeroEmpty ==
  (Built /\ last.budget = 0 /\ PreambleGiven /\ items # <<>>)
    => last.messages = <<>> /\ last.stats.used = 0

\* C8 (amended): with budget 0, a non-empty preamble and a non-empty history,
\* the preamble and every stub are left out, stats.used = 0, every returned
\* message costs zero tokens, and nothing is returned unless some turn has a
\* zero-cost full or shortened text.
C8_BudgetZeroNoCost ==
  (Built /\ last.budget = 0 /\ PreambleGiven /\ items # <<>>)
    => /\ last.stats.used = 0
       /\ ~PreambleEmitted
       /\ \A k \in 1..Len(last.messages) :
            /\ Count(last.messages[k].text) = 0
            /\ last.achieved[last.msg_ids[k]] \in {FULL, COMPRESSED}
       /\ (\A i \in 1..Len(items) :
             /\ Count(items[i].content) > 0
             /\ (items[i].compressed_text = NoText \/ Count(items[i].compressed_text[1]) > 0))
          => last.messages = <<>>

\* budget 0 with a preamble: the turn with empty text is returned, the turn
\* with text is not
C8_Witness ==
  /\ Built /\ last.budget = 0 /\ PreambleGiven
  /\ Len(items) >= 2 /\ Len(last.messages) = 1
  /\ last.stats.used = 0

\* C9: an add_message call that fails leaves the turn list and the id of the
\* next append as they were before the call.
C9_FailedAppendLeavesStore ==
  [][ (last'.op = "add_message" /\ last'.outcome = "error")
        => (items' = items /\ next_id' = next_id) ]_vars

\* C10: an invalid configuration is rejected at construction, so no
\* build_context call runs under one.
C10_ConfigValidated == Built => ValidConfig(cfg)

Fidelities == {FULL, COMPRESSED, PLACEHOLDER}

BuildStep == last'.op = "build_context" /\ last'.outcome = "ok"

\* C11: a turn's fidelity state is unset from append until a build_context
\* call emits it; a call that emits the turn sets it to the achieved fidelity
\* and a call in which the turn fits at no level leaves it as it was.
C11_FidelityState ==
  /\ []((last.op = "add_message" /\ last.outcome = "ok")
          => items[Len(items)].compression_state \notin Fidelities)
  /\ [][BuildStep =>
          \A i \in 1..Len(items) :
            items'[i].compression_state =
              IF last'.achieved[items[i].id] = ABSENT
              THEN items[i].compression_state
              ELSE last'.achieved[items[i].id]]_vars

\* C12: build_context keeps the stored turns and their id, role, content,
\* token_len and (present) embedding, writing only last_score,
\* compression_state and compressed_text; add_message keeps every turn that
\* was already stored exactly as it was.
C12_FrameOfWrites ==
  [][ /\ BuildStep =>
           /\ Len(items') = Len(items)
           /\ \A i \in 1..Len(items) :
                /\ items'[i].id = items[i].id
                /\ items'[i].role = items[i].role
                /\ items'[i].content = items[i].content
                /\ items'[i].token_len = items[i].token_len
                /\ items[i].embedding # <<>> => items'[i].embedding = items[i].embedding
      /\ last'.op = "add_message" =>
           \A i \in 1..Len(items) : items'[i] = items[i] ]_vars

\* a call has written all three cache fields of a turn of a two-turn store
C12_Witness ==
  /\ Built /\ Len(items) >= 2
  /\ \E i \in 1..Len(items) :
       /\ items[i].last_score > 0
       /\ items[i].compression_state = COMPRESSED
       /\ items[i].compressed_text # NoText
       /\ items[i].compressed_text[1] # items[i].content

\* C13: in every call on a non-empty store the most recently appended turn
\* has recency weight 1: its score is max(0, similarity to the query) and its
\* plan follows from that similarity and the two thresholds alone.
C13_MostRecentFullWeight ==
  (Built /\ items # <<>>) =>
    LET it == items[Len(items)]
        sim == cosine(encode(salt, last.query), it.embedding)
        s == IF sim > 0 THEN sim ELSE 0
    IN /\ it.last_score = s
       /\ last.desired[it.id] =
            IF s >= cfg.high_threshold THEN FULL
            ELSE IF s >= cfg.mid_threshold THEN COMPRESSED ELSE PLACEHOLDER

\* two turns similar to the query: the older one is scored below its
\* similarity, the most recent one exactly at it
C13_Witness ==
  /\ Built /\ Len(items) >= 2
  /\ items[Len(items)].last_score > 0
  /\ items[1].last_score > 0
  /\ items[1].last_score < cosine(encode(salt, last.query), items[1].embedding)

\* C14: compress returns a text that is already within the target as it is,
\* whatever the hint; so a turn whose token_len is within its own target
\* max(1, floor(token_len * ratio)) has its content as memoized and as emitted
\* shortened text.
C14_UnderTargetUnchanged ==
  /\ \A i \in 1..Len(items) :
       \A h \in Queries \cup {EmptyText} :
         \A t \in Count(items[i].content)..MaxBudget :
           compress(items[i].content, t, h) = items[i].content
  /\ \A i \in 1..Len(items) :
       LET it == items[i]
           target == Max(1, (it.token_len * cfg.default_compress_ratio) \div 100)
       IN (it.token_len <= target /\ it.compressed_text # NoText)
            => /\ it.compressed_text[1] = it.content
               /\ (Built /\ last.achieved[it.id] = COMPRESSED) =>
                    \E k \in 1..Len(last.messages) :
                      last.msg_ids[k] = it.id /\ last.messages[k].text = it.content

\* a turn of several sentences is emitted COMPRESSED with its content as the
\* shortened text
C14_Witness ==
  /\ Built
  /\ \E i \in 1..Len(items) :
       /\ Len(split_sentences(items[i].content)) > 1
       /\ items[i].token_len <= Max(1, (items[i].token_len * cfg.default_compress_ratio) \div 100)
       /\ last.achieved[items[i].id] = COMPRESSED
       /\ items[i].compressed_text = Some(items[i].content)

\* the text a turn is rendered as at a level, and the levels tried from a plan
RepText(it, level) ==
  CASE level = FULL -> it.content
    [] level = COMPRESSED -> IF it.compressed_text # NoText THEN it.compressed_text[1]
                             ELSE compress_item(it, last.query)
    [] level = PLACEHOLDER -> make_stub(it)

CascadeFrom(d) ==
  CASE d = FULL -> <<FULL, COMPRESSED, PLACEHOLDER>>
    [] d = COMPRESSED -> <<COMPRESSED, PLACEHOLDER>>
    [] d = PLACEHOLDER -> <<PLACEHOLDER>>

RECURSIVE FirstFit(_, _, _)
FirstFit(it, levels, rem) ==
  IF levels = <<>> THEN ABSENT
  ELSE IF Count(RepText(it, Head(levels))) <= rem THEN Head(levels)
       ELSE FirstFit(it, Tail(levels), rem)

\* the returned messages from position m on are those of the turns from
\* position k on, each at its first fitting level under the budget rem that
\* the turns before it left
RECURSIVE Replay(_, _, _)
Replay(k, rem, m) ==
  IF k > Len(items) THEN m = Len(last.messages) + 1
  ELSE LET it == items[k]
           lvl == FirstFit(it, CascadeFrom(last.desired[it.id]), rem)
       IN /\ last.achieved[it.id] = lvl
          /\ IF lvl = ABSENT THEN Replay(k + 1, rem, m)
             ELSE /\ m <= Len(last.messages)
                  /\ last.msg_ids[m] = it.id
                  /\ last.messages[m].text = RepText(it, lvl)
                  /\ Replay(k + 1, rem - Count(RepText(it, lvl)), m + 1)

PreambleCost == IF PreambleEmitted THEN Count(last.preamble[1]) ELSE 0

\* C15: going through the turns in chronological order, each turn is emitted
\* at the first level, from its planned level down, whose text costs at most
\* the budget left at that moment, which then drops by that cost; a turn is
\* left out, at no cost, exactly when none of these levels, the stub
\* included, fits, and the turns after it are still tried.
C15_FirstFittingLevel ==
  Built => Replay(1, last.budget - PreambleCost, IF PreambleEmitted THEN 2 ELSE 1)

\* the first turn fits at no level, the second is emitted below its plan
C15_Witness ==
  /\ Built /\ Len(items) >= 2
  /\ last.achieved[items[1].id] = ABSENT
  /\ last.achieved[items[2].id] # ABSENT
  /\ last.achieved[items[2].id] # last.desired[items[2].id]

\* C16: the plan of a turn is given by its score and the two thresholds, and
\* two successive calls with the same query on the same store make the same
\* plan whatever their budgets and preambles.
C16_PlanFromScores ==
  [][BuildStep =>
       /\ \A i \in 1..Len(items') :
            last'.desired[items'[i].id] =
              IF items'[i].last_score >= cfg.high_threshold THEN FULL
              ELSE IF items'[i].last_score >= cfg.mid_threshold THEN COMPRESSED
              ELSE PLACEHOLDER
       /\ (Built /\ last'.query = last.query) =>
            /\ last'.desired = last.desired
            /\ last'.stats.items_planned_full = last.stats.items_planned_full
            /\ last'.stats.items_planned_compressed = last.stats.items_planned_compressed
            /\ last'.stats.items_planned_stub = last.stats.items_planned_stub]_vars

\* a call whose plan mixes two levels, one turn scored exactly at a
\* threshold, and whose budget let it emit nothing of what was planned
C16_Witness ==
  /\ Built /\ Len(items) >= 2
  /\ last.stats.items_planned_full >= 1
  /\ last.stats.items_planned_compressed >= 1
  /\ \E i \in 1..Len(items) : items[i].last_score = cfg.mid_threshold
  /\ \A i \in 1..Len(items) : last.achieved[items[i].id] # last.desired[items[i].id]

\* cost of the messages emitted for the turns before the last one
RECURSIVE OlderCost(_)
OlderCost(k) ==
  IF k > Len(last.messages) THEN 0
  ELSE (IF last.msg_ids[k] \notin {0, items[Len(items)].id}
        THEN Count(last.messages[k].text) ELSE 0) + OlderCost(k + 1)

\* C17: under a valid configuration, a most recent turn planned FULL whose
\* full text costs no more than the budget minus the emitted preamble is
\* emitted FULL.
C17_MostRecentKeepsFull ==
  (Built /\ items # <<>> /\ ValidConfig(cfg)) =>
    LET it == items[Len(items)] IN
    (last.desired[it.id] = FULL /\ Count(it.content) <= last.budget - PreambleCost)
      => last.achieved[it.id] = FULL

\* C17 (amended): a most recent turn planned FULL is emitted FULL when its
\* full text costs no more than the budget minus the emitted preamble and
\* minus what the older turns, packed before it, have consumed.
C17_MostRecentFullWhenRoomLeft ==
  (Built /\ items # <<>>) =>
    LET it == items[Len(items)] IN
    (last.desired[it.id] = FULL
       /\ Count(it.content) <= last.budget - PreambleCost - OlderCost(1))
      => last.achieved[it.id] = FULL

\* an older turn is emitted and the most recent one takes exactly what is left
C17_Witness ==
  /\ Built /\ Len(items) >= 2
  /\ OlderCost(1) > 0
  /\ last.desired[items[Len(items)].id] = FULL
  /\ last.achieved[items[Len(items)].id] = FULL
  /\ Count(items[Len(items)].content) = last.budget - PreambleCost - OlderCost(1)

C19_EncodedAndCountedOnce ==
  (Built /\ ValidConfig(cfg)) =>
    /\ last.reencoded = {}
    /\ \A i \in 1..Len(items) :
         last.desired[items[i].id] # FULL /\ last.compress_calls[items[i].id] = 0

\* C20: under a valid configuration and with interleaved calls, the
\* shortened text of a turn with text is computed by at most one caller.
C20_ComputedByOneCaller ==
  \A i \in 1..Len(items) :
    (ValidConfig(cfg) /\ items[i].content # EmptyText) =>
      Cardinality({t \in Callers : <<items[i].id, t>> \in threads.computed_by}) <= 1

\* number of returned messages that render a stored turn
TurnMessages == Cardinality({k \in 1..Len(last.msg_ids) : last.msg_ids[k] # 0})

\* C21: in every result used = raw_tokens + compressed_tokens +
\* placeholder_tokens; expanded_count + compressed_count + stub_count is the
\* number of returned messages that come from stored turns and at most
\* items_total; and the three planned counts add up to items_total, the
\* number of stored turns.
C21_StatsConsistent ==
  Built =>
    LET st == last.stats IN
    /\ st.used = st.raw_tokens + st.compressed_tokens + st.placeholder_tokens
    /\ st.expanded_count + st.compressed_count + st.stub_count = TurnMessages
    /\ TurnMessages <= st.items_total
    /\ st.items_planned_full + st.items_planned_compressed + st.items_planned_stub = st.items_total
    /\ st.items_total = Len(items)

\* the preamble and a shortened turn are emitted and another turn is left out
C21_Witness ==
  /\ Built /\ PreambleEmitted
  /\ last.stats.compressed_count = 1 /\ last.stats.compressed_tokens > 0
  /\ TurnMessages < last.stats.items_total

\* C22: the call just made, made again on the store as it left it, returns
\* the same messages and the same stats.
C22_Repeatable ==
  Built =>
    LET again == BuildContext(last.query, last.budget, last.preamble).call
    IN /\ again.messages = last.messages
       /\ again.stats = last.stats

\* the call computed and stored a shortened text and emitted the turn with it
C22_Witness ==
  /\ Built
  /\ \E i \in 1..Len(items) :
       /\ items[i].id \notin last.memo_before
       /\ last.compress_calls[items[i].id] = 1
       /\ last.achieved[items[i].id] = COMPRESSED
       /\ items[i].compressed_text # Some(items[i].content)

====
